---- MODULE Spec2Model ----
(***************************************************************************)
(* Fusion Excel Tool (src/fusion_excel.py): the fusion pipeline             *)
(* fusion_excel (discovery, resilient load loop, combiner, preview,        *)
(* writer), its caller safe_fusion running on a worker thread, the Start    *)
(* handler run_fusion and the Tk event loop that runs the callbacks queued  *)
(* with root.after(0, ...).                                                 *)
(***************************************************************************)
EXTENDS Integers, Sequences, FiniteSets, TLC

\* ------------------------------------------------------------------ bounds
\* Largest number of entries of the input folder.
MaxFiles == 4
\* Largest number of rows of a loaded table, in the combiner's own check.
MaxRows == 1
\* Largest number of loaded tables handed to the combiner, in its own check.
MaxTables == 3

\* ------------------------------------------------------ program constants
\* read_errors[:10]: the warning shows the first 10 errors.
ErrorPreviewCap == 10

\* ------------------------------------------------------------ small helpers
Range(s) == {s[k] : k \in 1..Len(s)}

Min2(a, b) == IF a <= b THEN a ELSE b

Head_n(s, n) == SubSeq(s, 1, Min2(n, Len(s)))

RECURSIVE Flatten(_)
Flatten(ss) == IF ss = <<>> THEN <<>> ELSE Head(ss) \o Flatten(Tail(ss))

\* ---------------------------------------------------------------- discovery
\* A directory entry is a name: a stem (a number) and an extension, written as
\* the file system holds it.  Path.suffix is the extension.
Exts == {".csv", ".CSV", ".xlsx", ".Xlsx", ".xls", ".XLS", ".txt"}

\* str.lower() on the extensions of the model.
Lower(e) ==
  CASE e = ".CSV" -> ".csv"
    [] e = ".Xlsx" -> ".xlsx"
    [] e = ".XLS" -> ".xls"
    [] OTHER -> e

\* The input folder: whether it is a directory, and the names it holds.
Folder(names) == [is_dir |-> TRUE, names |-> names]

\* The input folder does not exist or is not a directory.
Missing == [is_dir |-> FALSE, names |-> {}]

\* Path.glob('*' + pat) on one name: the match is case-sensitive or not as the
\* platform decides (pathlib: case-sensitive on POSIX, not on Windows).
GlobMatches(name, pat, caseSensitive) ==
  IF caseSensitive THEN name.ext = pat ELSE Lower(name.ext) = Lower(pat)

\* The order glob yields the names in: here by stem, then by extension.
ExtRank(e) ==
  CASE e = ".csv" -> 1 [] e = ".CSV" -> 2 [] e = ".xlsx" -> 3 [] e = ".Xlsx" -> 4
    [] e = ".xls" -> 5 [] e = ".XLS" -> 6 [] OTHER -> 7

NameRank(name) == name.stem * 8 + ExtRank(name.ext)

RECURSIVE SeqOfNames(_)
SeqOfNames(S) ==
  IF S = {} THEN <<>>
  ELSE LET m == CHOOSE n \in S : \A o \in S : NameRank(n) <= NameRank(o)
       IN  <<m>> \o SeqOfNames(S \ {m})

Glob(dir, pat, caseSensitive) ==
  SeqOfNames({n \in dir : GlobMatches(n, pat, caseSensitive)})

\* files = glob('*.csv') + glob('*.xlsx') + glob('*.xls')
DiscoverFiles(dir, caseSensitive) ==
  Glob(dir, ".csv", caseSensitive) \o Glob(dir, ".xlsx", caseSensitive)
    \o Glob(dir, ".xls", caseSensitive)

\* ------------------------------------------------------------------- loader
Encodings == <<"cp1252", "utf-8", "latin1">>

\* What one parser call does: it returns a table, raises UnicodeDecodeError,
\* or raises another exception (ParserError, ImportError, PermissionError...).
\* latin1 decodes every byte sequence, so it never raises UnicodeDecodeError.
CsvOutcomes ==
  {o \in [1..3 -> {"ok", "UnicodeDecodeError", "ParserError"}] :
     o[3] # "UnicodeDecodeError"}

ExcelOutcomes == {<<"ok">>, <<"ImportError">>}

IsCsv(file) == Lower(file.ext) = ".csv"

Outcomes(file) == IF IsCsv(file) THEN CsvOutcomes ELSE ExcelOutcomes

\* A chain that goes on to the next encoding after any exception.
RECURSIVE CsvChainAnyError(_, _)
CsvChainAnyError(o, k) ==
  IF o[k] # "ok" /\ k < 3
    THEN <<[enc |-> Encodings[k], result |-> o[k]]>> \o CsvChainAnyError(o, k + 1)
    ELSE <<[enc |-> Encodings[k], result |-> o[k]]>>

\* The nested try of the .csv branch: the parser calls made, in order, each
\* with the encoding it used and how it ended.  The next encoding is tried
\* only after UnicodeDecodeError.
RECURSIVE CsvChain(_, _)
CsvChain(o, k) ==
  IF o[k] = "UnicodeDecodeError" /\ k < 3
    THEN <<[enc |-> Encodings[k], result |-> o[k]]>> \o CsvChain(o, k + 1)
    ELSE <<[enc |-> Encodings[k], result |-> o[k]]>>

\* The body of the try of one loop iteration: calls (the parser calls made),
\* end ("ok" or the exception that left the try), enc (of the returned table).
ReadFile(file, o) ==
  LET calls == IF IsCsv(file) THEN CsvChain(o, 1)
               ELSE <<[enc |-> "excel", result |-> o[1]]>>
  IN  [calls |-> calls, end |-> calls[Len(calls)].result, enc |-> calls[Len(calls)].enc]

\* A loop that catches parser errors only.
CaughtOnlyParserError(end) == end = "ParserError"

\* except Exception: every exception that leaves the try is caught.
CaughtByLoop(end) == end # "ok"

\* ------------------------------------------------------------------- tables
\* A table (DataFrame): cols, the column names in order, and rows, each row a
\* function from the column names to cells.  A cell is <<v>> or NA (missing).
NA == <<>>

Cell(v) == <<v>>

MkRow(cols, vals) == [c \in Range(cols) |-> vals[CHOOSE k \in 1..Len(cols) : cols[k] = c]]

\* The row with the columns of cols: its own cells, NA where it has none.
Widen(row, cols) == [c \in Range(cols) |-> IF c \in DOMAIN row THEN row[c] ELSE NA]

\* The columns the two tables have in common, in the left table's order:
\* pd.merge's join key when on, left_on and right_on are not given.
Common(L, R) == SelectSeq(L.cols, LAMBDA c : c \in Range(R.cols))

Key(row, on) == [k \in 1..Len(on) |-> row[on[k]]]

\* Order of cells and of keys: by value, missing last; keys lexicographically.
CellLess(a, b) == a # NA /\ (b = NA \/ a[1] < b[1])

KeyLess(a, b) ==
  \E k \in 1..Len(a) : (\A j \in 1..(k - 1) : a[j] = b[j]) /\ CellLess(a[k], b[k])

RECURSIVE SortKeys(_)
SortKeys(S) ==
  IF S = {} THEN <<>>
  ELSE LET m == CHOOSE a \in S : \A b \in S \ {a} : KeyLess(a, b)
       IN  <<m>> \o SortKeys(S \ {m})

\* The rows an inner join gives for one key: the pairs only.
RowsOfKeyInner(L, R, on, cols, key) ==
  LET ls == SelectSeq(L.rows, LAMBDA r : Key(r, on) = key)
      rs == SelectSeq(R.rows, LAMBDA r : Key(r, on) = key)
  IN  [n \in 1..(Len(ls) * Len(rs)) |->
         LET l == ls[((n - 1) \div Len(rs)) + 1]
             r == rs[((n - 1) % Len(rs)) + 1]
         IN  [c \in Range(cols) |-> IF c \in DOMAIN l THEN l[c] ELSE r[c]]]

\* The rows an outer join gives for one key: each pair of a left and a right
\* row with the key; a row with no partner alone, widened with NA.
RowsOfKey(L, R, on, cols, key) ==
  LET ls == SelectSeq(L.rows, LAMBDA r : Key(r, on) = key)
      rs == SelectSeq(R.rows, LAMBDA r : Key(r, on) = key)
  IN  IF rs = <<>> THEN [n \in 1..Len(ls) |-> Widen(ls[n], cols)]
      ELSE IF ls = <<>> THEN [n \in 1..Len(rs) |-> Widen(rs[n], cols)]
      ELSE [n \in 1..(Len(ls) * Len(rs)) |->
              LET l == ls[((n - 1) \div Len(rs)) + 1]
                  r == rs[((n - 1) % Len(rs)) + 1]
              IN  [c \in Range(cols) |-> IF c \in DOMAIN l THEN l[c] ELSE r[c]]]

\* pd.merge(L, R, how='outer') on a non-empty common key: the left columns,
\* then the right table's other columns; the keys of both sides, sorted.
OuterJoin(L, R) ==
  LET on == Common(L, R)
      cols == L.cols \o SelectSeq(R.cols, LAMBDA c : c \notin Range(L.cols))
      keys == SortKeys({Key(L.rows[n], on) : n \in 1..Len(L.rows)}
                         \cup {Key(R.rows[n], on) : n \in 1..Len(R.rows)})
  IN  [cols |-> cols,
       rows |-> Flatten([k \in 1..Len(keys) |-> RowsOfKey(L, R, on, cols, keys[k])])]

\* pd.merge raises MergeError ("No common columns to perform merge on") when
\* the two tables share no column.
MergeRaises(L, R) == Common(L, R) = <<>>

\* fusion = dataframes[0]; for df in dataframes[1:]: fusion = pd.merge(...).
\* accs are the values fusion takes; exc is "MergeError" when a merge raised.
RECURSIVE MergeLoop(_, _, _)
MergeLoop(accs, dfs, k) ==
  IF k > Len(dfs) THEN [exc |-> "none", accs |-> accs]
  ELSE IF MergeRaises(accs[Len(accs)], dfs[k]) THEN [exc |-> "MergeError", accs |-> accs]
  ELSE MergeLoop(Append(accs, OuterJoin(accs[Len(accs)], dfs[k])), dfs, k + 1)

MergeAll(dfs) == MergeLoop(<<dfs[1]>>, dfs, 2)

\* pd.concat(dataframes, ignore_index=True): the union of the columns in order
\* of first appearance, the rows of every table in order, NA where a table has
\* no such column.
RECURSIVE ConcatCols(_)
ConcatCols(dfs) ==
  IF dfs = <<>> THEN <<>>
  ELSE LET before == ConcatCols(SubSeq(dfs, 1, Len(dfs) - 1))
       IN  before \o SelectSeq(dfs[Len(dfs)].cols, LAMBDA c : c \notin Range(before))

Concat(dfs) ==
  LET cols == ConcatCols(dfs)
  IN  [cols |-> cols,
       rows |-> Flatten([k \in 1..Len(dfs) |->
                  [n \in 1..Len(dfs[k].rows) |-> Widen(dfs[k].rows[n], cols)]])]

\* The content of the files of the run's folder, by stem.  Cells are numbers:
\* in the x and y columns 1, 2, 3, 4 stand for "A", "B", "Y", "Z".
Content(file) ==
  CASE file.stem % 4 = 1 ->
         [cols |-> <<"id", "x">>,
          rows |-> <<MkRow(<<"id", "x">>, <<Cell(1), Cell(1)>>),
                     MkRow(<<"id", "x">>, <<Cell(2), Cell(2)>>)>>]
    [] file.stem % 4 = 2 ->
         [cols |-> <<"id", "y">>,
          rows |-> <<MkRow(<<"id", "y">>, <<Cell(2), Cell(3)>>),
                     MkRow(<<"id", "y">>, <<Cell(3), Cell(4)>>)>>]
    [] file.stem % 4 = 3 ->
         [cols |-> <<"z">>, rows |-> <<MkRow(<<"z">>, <<Cell(1)>>)>>]
    [] OTHER ->
         [cols |-> <<"id", "x">>,
          rows |-> <<MkRow(<<"id", "x">>, <<Cell(2), Cell(2)>>),
                     MkRow(<<"id", "x">>, <<Cell(2), NA>>)>>]

\* ---------------------------------------------------------------- the state
VARIABLES
  folder,          \* the input folder: whether it is a directory, and its names
  output_var,      \* the output path (a name: stem and extension)
  mode_var,        \* the fusion mode
  config,          \* config.json: "none", or the saved record
  button_start,    \* state of the Start button: "normal" or "disabled"
  progress,        \* the progress bar: [value, maximum]
  progress_label,  \* text of the label under the bar
  status_label,    \* text of the status label
  afterQueue,      \* callbacks queued with root.after(0, ...), oldest first
  th,              \* the worker threads: position and locals of safe_fusion
  run              \* history of the latest run (not program state)

vars == <<folder, output_var, mode_var, config, button_start, progress,
          progress_label, status_label, afterQueue, th, run>>

Threads == {1, 2}

\* A label text; "processed" carries f"{val}/{len(files)} files processed".
Label(text) == [text |-> text, val |-> 0, total |-> 0]

\* A queued callback: the widget call it makes and its arguments.
Item(w, text, val, total) == [w |-> w, text |-> text, val |-> val, total |-> total]

\* An exception: its type, the line that raised it, and what its message holds.
Exc(type, line, details, component, install, cause, path) ==
  [type |-> type, line |-> line, details |-> details, component |-> component,
   install |-> install, cause |-> cause, path |-> path]

NoExc == Exc("none", 0, <<>>, "", FALSE, "", FALSE)

\* A thread that is not running: no locals.
Dead ==
  [pc |-> "dead", files |-> <<>>, i |-> 0, dataframes |-> <<>>, read_errors |-> <<>>,
   fusion |-> <<>>, exc |-> NoExc, attempts |-> <<>>, accs |-> <<>>]

NoRun ==
  [n |-> 0, success |-> 0, error |-> 0, warning |-> 0, written |-> "none",
   write |-> [fmt |-> "none", outcome |-> "none", module |-> ""], saved |-> FALSE, reached |-> {}, workerWrites |-> {}]

Alive == {t \in Threads : th[t].pc # "dead"}

\* The folders of a run: missing, or the first k files of a fixed series
\* 1.csv, 2.xlsx, 3.CSV, 4.xls, 5.csv, ... beside a file that is no candidate.
RunName(k) ==
  [stem |-> k,
   ext |-> CASE k % 4 = 1 -> ".csv" [] k % 4 = 2 -> ".xlsx" [] k % 4 = 3 -> ".CSV"
             [] OTHER -> ".xls"]

RunFolders ==
  {Missing} \cup {Folder({RunName(k) : k \in 1..n} \cup {[stem |-> 0, ext |-> ".txt"]}) :
                    n \in 0..MaxFiles}

OutExts == {".csv", ".CSV", ".xlsx", ".txt"}

Modes == {"concat", "merge", "other"}

TypeOK ==
  /\ button_start \in {"normal", "disabled"}
  /\ config \in {"none", "saved"}
  /\ mode_var \in Modes
  /\ output_var.ext \in OutExts
  /\ \A t \in Threads :
       th[t].pc \in {"dead", "discover", "loop", "combine", "preview", "write",
                     "success", "except", "finally"}

Init ==
  /\ folder \in RunFolders
  /\ output_var \in {[stem |-> 9, ext |-> e] : e \in OutExts}
  /\ mode_var \in Modes
  /\ config = "none"
  /\ button_start = "normal"
  /\ progress = [value |-> 0, maximum |-> 100]
  /\ progress_label = [text |-> "processed", val |-> 0, total |-> 0]
  /\ status_label = Label("Waiting...")
  /\ afterQueue = <<>>
  /\ th = [t \in Threads |-> Dead]
  /\ run = NoRun

\* ------------------------------------------------------------- the UI thread
\* A handler that leaves the button enabled.
ButtonLeftEnabled == "normal"

\* button_start.config(state="disabled") in run_fusion.
ButtonAfterClick == "disabled"

\* run_fusion: the Start button's command.  A disabled button runs no command.
RunFusion ==
  /\ button_start = "normal"
  /\ \E t \in Threads :
       /\ th[t].pc = "dead"
       /\ \A u \in Threads : th[u].pc = "dead" => t <= u
       /\ th' = [th EXCEPT ![t] = [Dead EXCEPT !.pc = "discover"]]
  /\ button_start' = ButtonAfterClick
  /\ run' = [NoRun EXCEPT !.n = IF run.n = 0 THEN 1 ELSE 2]
  /\ UNCHANGED <<folder, output_var, mode_var, config, progress, progress_label,
                 status_label, afterQueue>>

\* The event loop runs the oldest queued callback.
UiStep ==
  /\ afterQueue # <<>>
  /\ LET c == Head(afterQueue)
     IN  /\ afterQueue' = Tail(afterQueue)
         /\ status_label' = IF c.w = "status_label" THEN Label(c.text) ELSE status_label
         /\ progress_label' =
              IF c.w = "progress_label"
                THEN [text |-> c.text, val |-> c.val, total |-> c.total]
                ELSE progress_label
         /\ progress' = IF c.w = "progress.value" THEN [progress EXCEPT !.value = c.val]
                        ELSE progress
         /\ button_start' = IF c.w = "button_start" THEN c.text ELSE button_start
         /\ run' = CASE c.w = "showwarning" -> [run EXCEPT !.warning = 1]
                     [] c.w = "showerror" -> [run EXCEPT !.error = @ + 1]
                     [] OTHER -> run
  /\ UNCHANGED <<folder, output_var, mode_var, config, th>>

\* ------------------------------------------------- the worker: fusion_excel
Raise(t, e) == th' = [th EXCEPT ![t] = [@ EXCEPT !.pc = "except", !.exc = e]]

Reached(stage) == [run EXCEPT !.reached = @ \cup {stage}]

\* Lines 65-82: the folder check, the three globs, the empty check, the start
\* of the progress display.
Discover(t) ==
  /\ th[t].pc = "discover"
  /\ \E caseSensitive \in BOOLEAN :
       IF ~folder.is_dir
         THEN /\ Raise(t, Exc("FileNotFoundError", 67, <<>>, "", FALSE, "not a directory", TRUE))
              /\ UNCHANGED <<progress, afterQueue>>
              /\ run' = Reached("discover")
         ELSE LET files == DiscoverFiles(folder.names, caseSensitive)
              IN  IF files = <<>>
                    THEN /\ Raise(t, Exc("FileNotFoundError", 74, <<>>, "", FALSE, "no files", TRUE))
                         /\ UNCHANGED <<progress, afterQueue>>
                         /\ run' = Reached("discover")
                    ELSE /\ th' = [th EXCEPT ![t] = [@ EXCEPT !.pc = "loop", !.files = files]]
                         /\ progress' = [progress EXCEPT !.maximum = Len(files)]
                         /\ afterQueue' =
                              Append(afterQueue, Item("status_label", "Reading Files...", 0, 0))
                         /\ run' = [run EXCEPT !.reached = @ \cup {"discover"},
                                               !.workerWrites = @ \cup {"progress.maximum"}]
  /\ UNCHANGED <<folder, output_var, mode_var, config, button_start, progress_label,
                 status_label>>

\* The two callbacks queued at the end of each iteration (lines 112-113).
ProgressCallbacks(val, total) ==
  <<Item("progress.value", "", val, 0), Item("progress_label", "processed", val, total)>>

\* Lines 86-113: one iteration of the load loop.
LoadFile(t) ==
  /\ th[t].pc = "loop"
  /\ th[t].i < Len(th[t].files)
  /\ LET i == th[t].i + 1
         file == th[t].files[i]
     IN  \E o \in Outcomes(file) :
           LET rd == ReadFile(file, o)
               att == [file |-> file, calls |-> rd.calls,
                       enc |-> IF rd.end = "ok" THEN rd.enc ELSE "none"]
           IN  IF rd.end = "ok"
                 THEN /\ th' = [th EXCEPT ![t] =
                                  [@ EXCEPT !.i = i,
                                            !.dataframes = Append(@, Content(file)),
                                            !.attempts = Append(@, att)]]
                      /\ afterQueue' = afterQueue \o ProgressCallbacks(i, Len(th[t].files))
                 ELSE IF CaughtByLoop(rd.end)
                 THEN /\ th' = [th EXCEPT ![t] =
                                  [@ EXCEPT !.i = i,
                                            !.read_errors = Append(@, [file |-> file, exc |-> rd.end]),
                                            !.attempts = Append(@, att)]]
                      /\ afterQueue' = afterQueue \o ProgressCallbacks(i, Len(th[t].files))
                 ELSE /\ th' = [th EXCEPT ![t] =
                                  [@ EXCEPT !.pc = "except",
                                            !.exc = Exc(rd.end, 92, <<>>, "", FALSE, "", FALSE),
                                            !.attempts = Append(@, att)]]
                      /\ UNCHANGED afterQueue
  /\ run' = Reached("load")
  /\ UNCHANGED <<folder, output_var, mode_var, config, button_start, progress,
                 progress_label, status_label>>

\* A check that never finds the list empty.
NoneLoadedNever(dataframes) == FALSE

\* if not dataframes
NoneLoaded(dataframes) == dataframes = <<>>

\* Lines 119-125: the warning, queued when some file failed.
WarningCallbacks(read_errors) ==
  IF read_errors # <<>>
    THEN <<Item("showwarning", "Some files were skipped",
                Len(Head_n(read_errors, ErrorPreviewCap)), Len(read_errors))>>
    ELSE <<>>

\* Lines 115-131: the end of the load stage.
EndLoad(t) ==
  /\ th[t].pc = "loop"
  /\ th[t].i = Len(th[t].files)
  /\ IF NoneLoaded(th[t].dataframes)
       THEN /\ th' = [th EXCEPT ![t] =
                        [@ EXCEPT !.pc = "except", !.attempts = <<>>,
                                  !.exc = Exc("RuntimeError", 117, th[t].read_errors, "", FALSE,
                                              IF th[t].read_errors # <<>> THEN ""
                                              ELSE "No readable files.", TRUE)]]
            /\ UNCHANGED <<progress, afterQueue>>
            /\ run' = Reached("loaded")
       ELSE /\ th' = [th EXCEPT ![t] = [@ EXCEPT !.pc = "combine", !.attempts = <<>>]]
            /\ progress' = [value |-> 0, maximum |-> 1]
            /\ afterQueue' = afterQueue \o WarningCallbacks(th[t].read_errors)
                 \o <<Item("progress_label", "Merging files...", 0, 0),
                      Item("status_label", "Reading completed, starting fusion...", 0, 0)>>
            /\ run' = [run EXCEPT !.reached = @ \cup {"loaded"},
                                  !.workerWrites = @ \cup {"progress.value", "progress.maximum"}]
  /\ UNCHANGED <<folder, output_var, mode_var, config, button_start, progress_label,
                 status_label>>

\* Lines 133-142: the combiner.  pd.concat of no tables raises ValueError and
\* dataframes[0] of no tables IndexError; a mode that is neither "concat" nor
\* "merge" leaves fusion unbound.
Combine(t) ==
  /\ th[t].pc = "combine"
  /\ LET dfs == th[t].dataframes
         m == MergeAll(dfs)
         bad == CASE mode_var = "concat" /\ dfs = <<>> -> "ValueError"
                  [] mode_var = "merge" /\ dfs = <<>> -> "IndexError"
                  [] mode_var = "merge" /\ dfs # <<>> /\ m.exc # "none" -> m.exc
                  [] OTHER -> "none"
     IN  IF bad # "none"
           THEN /\ th' = [th EXCEPT ![t] =
                            [@ EXCEPT !.pc = "except",
                                      !.accs = IF dfs # <<>> /\ mode_var = "merge" THEN m.accs ELSE <<>>,
                                      !.exc = Exc(bad, IF mode_var = "concat" THEN 134
                                                       ELSE IF dfs = <<>> THEN 137 ELSE 139,
                                                  <<>>, "", FALSE, "", FALSE)]]
                /\ UNCHANGED afterQueue
           ELSE /\ th' = [th EXCEPT ![t] =
                            [@ EXCEPT !.pc = "preview",
                                      !.accs = IF mode_var = "merge" THEN m.accs ELSE <<>>,
                                      !.fusion = CASE mode_var = "concat" -> <<Concat(dfs)>>
                                                   [] mode_var = "merge" -> <<m.accs[Len(m.accs)]>>
                                                   [] OTHER -> <<>>]]
                /\ afterQueue' = afterQueue
                     \o <<Item("progress_label", "Fusion completed, writing to file...", 0, 0),
                          Item("status_label", "", 0, 0)>>
  /\ run' = Reached("combine")
  /\ UNCHANGED <<folder, output_var, mode_var, config, button_start, progress,
                 progress_label, status_label>>

\* Line 168 (show_preview, lines 144-166): the preview window, built by the
\* calling thread; reading the unbound fusion raises UnboundLocalError.
Preview(t) ==
  /\ th[t].pc = "preview"
  /\ IF th[t].fusion = <<>>
       THEN /\ Raise(t, Exc("UnboundLocalError", 168, <<>>, "", FALSE, "", FALSE))
            /\ run' = run
       ELSE /\ th' = [th EXCEPT ![t] = [@ EXCEPT !.pc = "write"]]
            /\ run' = [run EXCEPT !.reached = @ \cup {"preview"},
                                  !.workerWrites = @ \cup {"preview_window"}]
  /\ UNCHANGED <<folder, output_var, mode_var, config, button_start, progress,
                 progress_label, status_label, afterQueue>>

\* A comparison of the extension as written.
IsCsvOutExact(out) == out.ext = ".csv"

\* out_path.suffix.lower() == ".csv"
IsCsvOut(out) == Lower(out.ext) = ".csv"

WriterFormat(out) == IF IsCsvOut(out) THEN "csv" ELSE "excel"

\* How to_csv / to_excel may end: written (end "ok"), an error of the file
\* system or of the engine choice, or (to_excel) ModuleNotFoundError for a
\* module that is not installed: the writer's module openpyxl, or a module that
\* openpyxl itself imports (et_xmlfile).
WriteEnd(end, module) == [end |-> end, module |-> module]

WriteOutcomes(out) ==
  {WriteEnd("ok", ""), WriteEnd("PermissionError", "")}
    \cup (IF IsCsvOut(out) THEN {}
          ELSE {WriteEnd("ValueError", ""),
                WriteEnd("ModuleNotFoundError", "openpyxl"),
                WriteEnd("ModuleNotFoundError", "et_xmlfile")})

\* Lines 177-183: what the two except clauses of the writer raise.
\* "No module named 'm'" contains "openpyxl" exactly when m is openpyxl.
WriteException(end, module) ==
  IF end = "ModuleNotFoundError"
    THEN IF module = "openpyxl"
           THEN Exc("ModuleNotFoundError", 179, <<>>, "openpyxl", TRUE, "", FALSE)
           ELSE Exc("ModuleNotFoundError", 181, <<>>, module, FALSE, "", FALSE)
    ELSE Exc("RuntimeError", 183, <<>>, "", FALSE, end, TRUE)

\* Lines 170-183: the writer.
Write(t) ==
  /\ th[t].pc = "write"
  /\ \E o \in WriteOutcomes(output_var) :
       LET w == [fmt |-> WriterFormat(output_var), outcome |-> o.end, module |-> o.module]
       IN  IF o.end = "ok"
             THEN /\ th' = [th EXCEPT ![t] = [@ EXCEPT !.pc = "success"]]
                  /\ run' = [run EXCEPT !.reached = @ \cup {"write"}, !.write = w,
                                        !.written = w.fmt]
             ELSE /\ Raise(t, WriteException(o.end, o.module))
                  /\ run' = [run EXCEPT !.reached = @ \cup {"write"}, !.write = w]
  /\ UNCHANGED <<folder, output_var, mode_var, config, button_start, progress,
                 progress_label, status_label, afterQueue>>

\* Lines 185-188: the completion callbacks, and the success dialog, which the
\* calling thread opens itself.
Success(t) ==
  /\ th[t].pc = "success"
  /\ th' = [th EXCEPT ![t] = [@ EXCEPT !.pc = "finally"]]
  /\ afterQueue' = afterQueue
       \o <<Item("progress.value", "", 1, 0),
            Item("progress_label", "Done", 0, 0),
            Item("status_label", "Writing completed", 0, 0)>>
  /\ run' = [run EXCEPT !.reached = @ \cup {"success"}, !.success = @ + 1,
                        !.workerWrites = @ \cup {"messagebox.showinfo"}]
  /\ UNCHANGED <<folder, output_var, mode_var, config, button_start, progress,
                 progress_label, status_label>>

\* ------------------------------------------------- the worker: safe_fusion
\* A handler that swallows the exception.
ErrorSwallowed(e) == <<>>

\* Line 224: the error dialog, queued for the event loop.
ErrorCallbacks(e) == <<Item("showerror", e.type, e.line, 0)>>

\* Lines 223-224: except Exception.
Except(t) ==
  /\ th[t].pc = "except"
  /\ th' = [th EXCEPT ![t] = [@ EXCEPT !.pc = "finally"]]
  /\ afterQueue' = afterQueue \o ErrorCallbacks(th[t].exc)
  /\ UNCHANGED <<folder, output_var, mode_var, config, button_start, progress,
                 progress_label, status_label, run>>

\* Lines 225-228 (save_config, lines 21-35): the preferences are written and
\* the re-enabling of the button is queued; when open() or json.dump raises,
\* the exception leaves the finally block and ends the thread.
Finally(t) ==
  /\ th[t].pc = "finally"
  /\ th' = [th EXCEPT ![t] = Dead]
  /\ \E saved \in BOOLEAN :
       IF saved
         THEN /\ config' = "saved"
              /\ afterQueue' = Append(afterQueue, Item("button_start", "normal", 0, 0))
              /\ run' = [run EXCEPT !.saved = TRUE]
         ELSE UNCHANGED <<config, afterQueue, run>>
  /\ UNCHANGED <<folder, output_var, mode_var, button_start, progress, progress_label,
                 status_label>>

\* ------------------------------------------------------------ specification
Next ==
  \/ RunFusion
  \/ UiStep
  \/ \E t \in Threads :
       \/ Discover(t)
       \/ LoadFile(t)
       \/ EndLoad(t)
       \/ Combine(t)
       \/ Preview(t)
       \/ Write(t)
       \/ Success(t)
       \/ Except(t)
       \/ Finally(t)

Spec == Init /\ [][Next]_vars

\* ------------------------------------------- discovery over every folder
\* The names a folder may hold: two stems, every extension.
Names == {[stem |-> k, ext |-> e] : k \in {1, 2}, e \in Exts}

\* No two names of a folder differ in case only (no file system that ignores
\* case holds both).
NoCaseClash(S) ==
  \A a, b \in S : (a.stem = b.stem /\ Lower(a.ext) = Lower(b.ext)) => a = b

AllFolders ==
  {Missing} \cup {Folder(S) : S \in {X \in SUBSET Names : Cardinality(X) <= MaxFiles /\ NoCaseClash(X)}}

\* A run that has just been started, over any folder.
InitDiscovery ==
  /\ folder \in AllFolders
  /\ output_var = [stem |-> 9, ext |-> ".xlsx"]
  /\ mode_var = "concat"
  /\ config = "none"
  /\ button_start = "disabled"
  /\ progress = [value |-> 0, maximum |-> 100]
  /\ progress_label = [text |-> "processed", val |-> 0, total |-> 0]
  /\ status_label = Label("Waiting...")
  /\ afterQueue = <<>>
  /\ th = [t \in Threads |-> IF t = 1 THEN [Dead EXCEPT !.pc = "discover"] ELSE Dead]
  /\ run = [NoRun EXCEPT !.n = 1]

NextDiscovery == \E t \in Threads : Discover(t)

SpecDiscovery == InitDiscovery /\ [][NextDiscovery]_vars

\* ------------------------------------------ the combiner over every input
Keys == {1, 2}

Layouts == {<<"id", "x">>, <<"id", "y">>}

\* The table with the given columns whose first column holds the keys ks and
\* whose other columns hold the row number.
TableOf(layout, ks) ==
  [cols |-> layout,
   rows |-> [n \in 1..Len(ks) |->
               [c \in Range(layout) |-> IF c = layout[1] THEN Cell(ks[n]) ELSE Cell(n)]]]

Tables ==
  {TableOf(l, ks) : l \in Layouts, ks \in UNION {[1..n -> Keys] : n \in 0..MaxRows}}
    \cup {Content([stem |-> k, ext |-> ".csv"]) : k \in 1..4}

\* The load stage has ended with the tables dfs, in merge mode, and the event
\* loop has run every callback queued so far.
InitMerge ==
  /\ folder = Missing
  /\ output_var = [stem |-> 9, ext |-> ".xlsx"]
  /\ mode_var = "merge"
  /\ config = "none"
  /\ button_start = "disabled"
  /\ progress = [value |-> 0, maximum |-> 1]
  /\ progress_label = Label("Merging files...")
  /\ status_label = Label("Reading completed, starting fusion...")
  /\ afterQueue = <<>>
  /\ \E dfs \in UNION {[1..n -> Tables] : n \in 1..MaxTables} :
       th = [t \in Threads |->
               IF t = 1
                 THEN [Dead EXCEPT !.pc = "combine", !.dataframes = dfs, !.i = Len(dfs),
                                   !.files = [k \in 1..Len(dfs) |-> [stem |-> k, ext |-> ".csv"]]]
                 ELSE Dead]
  /\ run = [NoRun EXCEPT !.n = 1, !.reached = {"discover", "load", "loaded"},
                         !.workerWrites = {"progress.value", "progress.maximum"}]

NextMerge == \E t \in Threads : Combine(t)

SpecMerge == InitMerge /\ [][NextMerge]_vars

\* ------------------------------------------------------------------- claims
Last(q) == q[Len(q)]

Failed(attempts) == SelectSeq(attempts, LAMBDA a : Last(a.calls).result # "ok")

AfterLoad == {"combine", "preview", "write", "success"}

\* C2 (total failure): once the load stage has ended, the run has failed with
\* the RuntimeError of line 117 exactly when no table was loaded; that error
\* carries the per-file errors, and in that run the combiner, the preview, the
\* writer and the success confirmation are not reached and nothing is written.
C2_TotalFailure ==
  \A t \in Threads :
    LET s == th[t]
        failedAtLoad == s.exc.type = "RuntimeError" /\ s.exc.line = 117
    IN  /\ ("loaded" \in run.reached /\ s.pc # "dead") => (failedAtLoad <=> s.dataframes = <<>>)
        /\ failedAtLoad =>
             /\ s.i = Len(s.files)
             /\ s.exc.details = s.read_errors
             /\ (s.read_errors = <<>> <=> s.exc.cause = "No readable files.")
             /\ run.reached \cap AfterLoad = {}
             /\ run.written = "none"
             /\ run.success = 0
        /\ s.pc \in AfterLoad => s.dataframes # <<>>

\* Every file of a folder of three failed, and the run ended at line 117.
C2_Witness ==
  \E t \in Threads :
    /\ th[t].pc = "except"
    /\ th[t].exc.line = 117
    /\ Len(th[t].read_errors) = 3

\* C3 (encoding fallback order): the parser calls made for a delimited-text
\* file use cp1252, utf-8, latin1 in this order; a call is followed by the
\* next one exactly when it raised UnicodeDecodeError; the table is the one
\* of the last call, and the file is in the error list exactly when that call
\* failed; a spreadsheet file gets the one native call.
C3_FallbackOrder ==
  \A t \in Threads :
    \A k \in 1..Len(th[t].attempts) :
      LET a == th[t].attempts[k]
          n == Len(a.calls)
          errorFiles == {e.file : e \in Range(th[t].read_errors)}
      IN  /\ IsCsv(a.file) =>
                /\ n \in 1..3
                /\ \A j \in 1..n : a.calls[j].enc = Encodings[j]
                /\ \A j \in 1..3 : (j + 1 <= n) <=> (j <= n /\ j < 3 /\ a.calls[j].result = "UnicodeDecodeError")
          /\ ~IsCsv(a.file) => (n = 1 /\ a.calls[1].enc = "excel")
          /\ Last(a.calls).result = "ok" => (a.enc = Last(a.calls).enc /\ a.file \notin errorFiles)
          /\ (Last(a.calls).result # "ok" /\ th[t].pc = "loop") => a.file \in errorFiles

\* A file that failed cp1252 and utf-8 with decoding errors and was read with
\* latin1: its table is loaded and no error is recorded.
C3_Witness ==
  \E t \in Threads :
    \E k \in 1..Len(th[t].attempts) :
      LET a == th[t].attempts[k]
      IN  /\ Len(a.calls) = 3
          /\ a.calls[1].result = "UnicodeDecodeError"
          /\ a.calls[2].result = "UnicodeDecodeError"
          /\ a.calls[3].result = "ok"
          /\ a.enc = "latin1"
          /\ Len(th[t].read_errors) = 0
          /\ Len(th[t].dataframes) = k

Qualifying(names) == {n \in names : Lower(n.ext) \in {".csv", ".xlsx", ".xls"}}

\* C4 (discovery): the discovered files are exactly the names of the folder
\* whose extension is csv, xlsx or xls whatever its case, each once; the error
\* of line 67 is raised exactly for a missing folder and that of line 74
\* exactly for a folder with no such name.
C4_Discovery ==
  \A t \in Threads :
    LET s == th[t]
    IN  /\ s.pc = "loop" =>
             /\ Range(s.files) = Qualifying(folder.names)
             /\ Len(s.files) = Cardinality(Qualifying(folder.names))
        /\ (s.pc = "except" /\ s.exc.type = "FileNotFoundError") =>
             /\ s.exc.line = 67 <=> ~folder.is_dir
             /\ s.exc.line = 74 <=> (folder.is_dir /\ Qualifying(folder.names) = {})

WriteFailed == run.write.fmt # "none" /\ run.write.outcome # "ok"

Raisers == {t \in Threads : th[t].pc \in {"except", "finally"}}

\* C5 as amended (writer error taxonomy): the format follows the extension
\* ('.csv' in any case: delimited text, else spreadsheet); a missing module
\* gives ModuleNotFoundError naming the module, with the installation advice
\* exactly when the module is openpyxl; any other failure gives the
\* RuntimeError holding the cause and the path; no failed write reports
\* success.
C5_WriterTaxonomy ==
  /\ run.write.fmt # "none" =>
       run.write.fmt = (IF output_var.ext \in {".csv", ".CSV"} THEN "csv" ELSE "excel")
  /\ (run.write.fmt # "none" /\ run.write.outcome = "ok") => run.written = run.write.fmt
  /\ WriteFailed =>
       /\ run.success = 0
       /\ run.written = "none"
       /\ \A t \in Raisers :
            LET e == th[t].exc
            IN  IF run.write.outcome = "ModuleNotFoundError"
                  THEN /\ e.type = "ModuleNotFoundError"
                       /\ e.component = run.write.module
                       /\ e.install <=> run.write.module = "openpyxl"
                  ELSE /\ e.type = "RuntimeError"
                       /\ e.cause = run.write.outcome
                       /\ e.path

\* C5 as claimed: every write that fails for want of a module gives the error
\* that names the module and says how to install it.
C5_Original ==
  (WriteFailed /\ run.write.outcome = "ModuleNotFoundError") =>
    \A t \in Raisers :
      th[t].exc.type = "ModuleNotFoundError" /\ th[t].exc.component # "" /\ th[t].exc.install

\* The write to an .xlsx path failed for want of openpyxl.
C5_Witness ==
  \E t \in Raisers :
    /\ WriteFailed
    /\ run.write.module = "openpyxl"
    /\ th[t].exc.type = "ModuleNotFoundError"
    /\ th[t].exc.install

Queued(w) == Cardinality({k \in 1..Len(afterQueue) : afterQueue[k].w = w})

\* The terminal notifications of the latest run: shown or queued to be shown.
Terminal == run.success + run.error + Queued("showerror")

\* C6 (exactly one terminal outcome): a run never has more than one terminal
\* notification; it has one as soon as safe_fusion reaches its finally block
\* and after the thread has ended; the success confirmation comes only after
\* a successful write; the warning is counted apart and a run with a warning
\* still gets its one terminal notification.
C6_OneTerminalOutcome ==
  /\ Terminal <= 1
  /\ run.warning + Queued("showwarning") <= 1
  /\ (\E t \in Threads : th[t].pc = "finally") => Terminal = 1
  /\ (run.n > 0 /\ Alive = {}) => Terminal = 1
  /\ run.success > 0 => (run.written # "none" /\ run.write.outcome = "ok")

\* A run with a mode that is neither concat nor merge has ended: the warning
\* and one error dialog were shown.
C6_Witness ==
  /\ mode_var = "other"
  /\ Alive = {}
  /\ afterQueue = <<>>
  /\ run.warning = 1
  /\ run.error = 1
  /\ run.success = 0

\* C8 (thread-safe hand-off): the worker thread writes no presentation state
\* itself.
C8_NoWorkerWrites == run.workerWrites = {}

\* C9 (single job at a time): at most one job is in flight; while one is, the
\* Start button is disabled and no re-enabling is queued; a re-enabling is
\* queued only after the job has ended and the preferences were saved.
C9_SingleJob ==
  /\ Cardinality(Alive) <= 1
  /\ Alive # {} => (button_start = "disabled" /\ Queued("button_start") = 0)
  /\ Queued("button_start") > 0 => (Alive = {} /\ run.saved /\ config = "saved")

\* A second job is in its load loop, after the first one ended.
C9_Witness ==
  /\ run.n = 2
  /\ \E t \in Threads : th[t].pc = "loop" /\ th[t].i = 1
  /\ button_start = "disabled"

\* C10 (Start trigger liveness): once a run has ended and the event loop has
\* run every queued callback, the preferences are saved and the Start button
\* is enabled.
C10_StartReenabled ==
  (run.n > 0 /\ Alive = {} /\ afterQueue = <<>>) => (button_start = "normal" /\ config = "saved")

\* Full outer join, stated on rows: J has the left columns followed by the
\* right table's other columns, and holds, with the same multiplicity, one row
\* for each pair of a left and a right row that agree on the common columns,
\* and one row, completed with NA, for each row of either side that agrees
\* with no row of the other side.
Agree(l, r) == \A c \in DOMAIN l \cap DOMAIN r : l[c] = r[c]

Joined(l, r, cs) == [c \in cs |-> IF c \in DOMAIN l THEN l[c] ELSE r[c]]

Completed(r, cs) == [c \in cs |-> IF c \in DOMAIN r THEN r[c] ELSE NA]

Count(row, rows) == Cardinality({n \in 1..Len(rows) : rows[n] = row})

IsFullOuterJoin(L, R, J) ==
  LET cs == Range(L.cols) \cup Range(R.cols)
      nl == 1..Len(L.rows)
      nr == 1..Len(R.rows)
      pairs == {p \in nl \X nr : Agree(L.rows[p[1]], R.rows[p[2]])}
      loneL == {n \in nl : \A m \in nr : ~Agree(L.rows[n], R.rows[m])}
      loneR == {m \in nr : \A n \in nl : ~Agree(L.rows[n], R.rows[m])}
      Expected(row) ==
        Cardinality({p \in pairs : Joined(L.rows[p[1]], R.rows[p[2]], cs) = row})
          + Cardinality({n \in loneL : Completed(L.rows[n], cs) = row})
          + Cardinality({m \in loneR : Completed(R.rows[m], cs) = row})
  IN  /\ Range(J.cols) = cs
      /\ Len(J.cols) = Cardinality(cs)
      /\ SubSeq(J.cols, 1, Len(L.cols)) = L.cols
      /\ Len(J.rows) = Cardinality(pairs) + Cardinality(loneL) + Cardinality(loneR)
      /\ \A n \in 1..Len(J.rows) : Count(J.rows[n], J.rows) = Expected(J.rows[n])

Example1 == Content([stem |-> 1, ext |-> ".csv"])

Example2 == Content([stem |-> 2, ext |-> ".csv"])

\* The rows id=1 (x=A, y missing), id=2 (x=B, y=Y), id=3 (x missing, y=Z).
ExampleRows ==
  {MkRow(<<"id", "x", "y">>, <<Cell(1), Cell(1), NA>>),
   MkRow(<<"id", "x", "y">>, <<Cell(2), Cell(2), Cell(3)>>),
   MkRow(<<"id", "x", "y">>, <<Cell(3), NA, Cell(4)>>)}

\* The values of fusion so far are the left fold of full outer join over the
\* first tables, in load order.
IsFold(accs, dfs) ==
  /\ accs[1] = dfs[1]
  /\ \A k \in 2..Len(accs) : IsFullOuterJoin(accs[k - 1], dfs[k], accs[k])

====
